---- MODULE Spec2Model ----
(***************************************************************************)
(* timr: a terminal countdown timer (src/src/main.rs).                     *)
(*                                                                         *)
(* The main thread runs key_events_loop (the Idle phase) and, after Enter, *)
(* all_events_loop (the Running phase).  Background threads read keys from *)
(* the terminal and produce Ticks; they talk to the main thread through    *)
(* two mpsc channels.  The countdown is the AtomicUsize app.duration.      *)
(***************************************************************************)
EXTENDS Integers, Sequences, FiniteSets, TLC

\* ---------------------------------------------------------------- bounds
MaxDuration == 3     \* args.duration ranges over 0..MaxDuration
MaxKeys == 2         \* key presses typed on the terminal in one run
MaxPending == 2      \* events queued in the all_events channel
WordBits == 16       \* width the model gives usize (the build has 64)
MaxTicks == MaxDuration + 2   \* Ticks the tick thread sends in one run

\* ---------------------------------------------------------------- values
\* termion Key values the program distinguishes: Key::Char('\n'), Key::Esc,
\* and two keys it has no arm for (the "Quit-key" and any other key).
Keys == {"Enter", "Esc", "Quit", "Other"}

\* enum TimrEvent { Input(Key), Tick }
Input(k) == [type |-> "Input", key |-> k]
Tick == [type |-> "Tick", key |-> "-"]

VARIABLES
    d,         \* args.duration, fixed at startup
    counter,   \* app.duration (Arc<AtomicUsize>)
    pc,        \* position of the main thread
    proc,      \* "up" until main has returned or panicked and the process is gone
    stdin,     \* keys typed and not yet read by a key thread
    typed,     \* number of keys typed so far
    eof,       \* the terminal input stream has ended
    kchan,     \* queue of the channel made by key_events()
    achan,     \* queue of the channel made by all_events()
    kreader,   \* key thread spawned by key_events()
    areader,   \* key thread spawned by all_events()
    ticker,    \* tick thread spawned by all_events()
    sent,      \* Ticks sent so far
    drawn,     \* value painted by the last terminal.draw, -1 before the first
    hist       \* history: one entry per event the main thread has handled

vars == <<d, counter, pc, proc, stdin, typed, eof, kchan, achan,
          kreader, areader, ticker, sent, drawn, hist>>

\* ------------------------------------------------------- derived notions
\* The spec's control states, read off the main thread's position.
ControlStateOf(p) ==
    CASE p \in {"k_draw", "k_recv"} -> "Idle"
      [] p \in {"a_draw", "a_recv", "a_sub"} -> "Running"
      [] p = "done" -> "Terminated"
      [] OTHER -> "Failed"

ControlState == ControlStateOf(pc)

\* `events` of key_events_loop lives until key_events_loop returns.
KeyRxAlive == pc \notin {"done", "panicked"}

\* variant: the receiver of all_events() outlives all_events_loop
AllRxAlive_outlives == pc \in {"a_draw", "a_recv", "a_sub", "done", "panicked"}

\* `events` of all_events_loop lives while all_events_loop runs.
AllRxAlive == pc \in {"a_draw", "a_recv", "a_sub"}

TicksIn(q) == Cardinality({i \in DOMAIN q : q[i] = Tick})

\* A hist entry: the event, the control state it was consumed in, the counter
\* before and after its arm, whether the arm ran fetch_sub, the control state
\* after it, (for the Tick that finds the counter at 1) whether a further
\* Tick was already queued behind it when the fetch_sub ran, and (for a Tick
\* or an Escape consumed in Running) whether the other of the two was queued
\* directly behind it when its arm ran.
Entry(ev, st, before, after, dec, to, more, race) ==
    [ev |-> ev, st |-> st, before |-> before, after |-> after,
     dec |-> dec, to |-> to, more |-> more, race |-> race]

\* Event `other` is the first one queued in q.
NextQueued(q, other) == q # <<>> /\ Head(q) = other

\* ------------------------------------------------------ the counter cell
\* variant: the zero check never fires
load_is_zero_never(c) == FALSE

\* variant: the zero check fires one Tick early
load_is_zero_le_one(c) == c <= 1

\* app.duration.load(Ordering::SeqCst) == 0
load_is_zero(c) == c = 0

\* variant: the subtraction takes two
fetch_sub_by_two(c) == (c - 2) % (2 ^ WordBits)

\* variant: the subtraction is lost
fetch_sub_noop(c) == c

\* app.duration.fetch_sub(1, Ordering::Relaxed): wrapping subtraction
fetch_sub(c) == (c - 1) % (2 ^ WordBits)

\* ------------------------------------------------------------ match arms
\* variant: key_events_loop without its Key::Esc arm
key_events_match_no_esc(ev) ==
    IF ev.type = "Input" /\ ev.key = "Enter" THEN "all_events_loop" ELSE "continue"

\* variant: every key but Key::Esc starts all_events_loop
key_events_match_any_key_starts(ev) ==
    IF ev.type = "Input"
    THEN IF ev.key = "Esc" THEN "return" ELSE "all_events_loop"
    ELSE "continue"

\* key_events_loop: match events.recv()? { ... }
key_events_match(ev) ==
    IF ev.type = "Input"
    THEN CASE ev.key = "Enter" -> "all_events_loop"
           [] ev.key = "Esc" -> "return"
           [] OTHER -> "continue"
    ELSE "continue"

\* variant: key_events_loop goes round its loop again after all_events_loop
after_all_events_loop_continue == "k_draw"

\* key_events_loop: `return Ok(())` follows all_events_loop(..).unwrap(), so
\* leaving all_events_loop by break or by return ends key_events_loop too
after_all_events_loop == "done"

\* variant: a failed recv ends the loops with Ok(())
recv_error_swallowed == "done"

\* events.recv()? hands the RecvError to the caller, and the callers unwrap
\* it: all_events_loop(..).unwrap() in key_events_loop, key_events_loop(..)
\* .unwrap() in main.  The main thread panics.
recv_error == "panicked"

\* How main ends: Ok(()) or the panic of its unwrap.
Outcome ==
    CASE pc = "done" -> "success"
      [] pc = "panicked" -> "error"
      [] OTHER -> "none"

\* variant: all_events_loop without its Key::Esc arm
all_events_match_no_esc(ev, c) ==
    IF ev.type = "Tick"
    THEN IF load_is_zero(c) THEN "break" ELSE "fetch_sub"
    ELSE "continue"

\* variant: every key press ends all_events_loop
all_events_match_any_key_returns(ev, c) ==
    IF ev.type = "Tick"
    THEN IF load_is_zero(c) THEN "break" ELSE "fetch_sub"
    ELSE "return"

\* all_events_loop: match events.recv()? { ... }
all_events_match(ev, c) ==
    IF ev.type = "Tick"
    THEN IF load_is_zero(c) THEN "break" ELSE "fetch_sub"
    ELSE IF ev.key = "Esc" THEN "return" ELSE "continue"

\* ------------------------------------------------------------------ Init
Init ==
    /\ d \in 0..MaxDuration
    /\ counter = d
    /\ pc = "k_draw"
    /\ proc = "up"
    /\ stdin = <<>>
    /\ typed = 0
    /\ eof = FALSE
    /\ kchan = <<>>
    /\ achan = <<>>
    /\ kreader = "alive"
    /\ areader = "none"
    /\ ticker = "none"
    /\ sent = 0
    /\ drawn = -1
    /\ hist = <<>>

\* ----------------------------------------------------------- environment
\* The user presses a key.
Type(k) ==
    /\ proc = "up"
    /\ ~eof
    /\ typed < MaxKeys
    /\ stdin' = Append(stdin, k)
    /\ typed' = typed + 1
    /\ UNCHANGED <<d, counter, pc, proc, eof, kchan, achan,
                   kreader, areader, ticker, sent, drawn, hist>>

\* The terminal input stream ends.
Eof ==
    /\ proc = "up"
    /\ ~eof
    /\ eof' = TRUE
    /\ UNCHANGED <<d, counter, pc, proc, stdin, typed, kchan, achan,
                   kreader, areader, ticker, sent, drawn, hist>>

\* ------------------------------------------------------ producer threads
\* key_events(): for key in stdin.keys().flatten() { tx.send(Input(key)) }
key_events_thread ==
    /\ proc = "up"
    /\ kreader = "alive"
    /\ stdin # <<>> \/ eof
    /\ IF stdin # <<>>
       THEN /\ stdin' = Tail(stdin)
            /\ IF KeyRxAlive
               THEN kchan' = Append(kchan, Input(Head(stdin))) /\ kreader' = kreader
               ELSE kchan' = kchan /\ kreader' = "failed"
       ELSE /\ kreader' = "ended"
            /\ UNCHANGED <<stdin, kchan>>
    /\ UNCHANGED <<d, counter, pc, proc, typed, eof, achan,
                   areader, ticker, sent, drawn, hist>>

\* all_events(): for key in stdin.keys().flatten() { key_tx.send(Input(key)) }
all_events_key_thread ==
    /\ proc = "up"
    /\ areader = "alive"
    /\ stdin # <<>> \/ eof
    /\ IF stdin # <<>>
       THEN /\ stdin' = Tail(stdin)
            /\ IF AllRxAlive
               THEN achan' = Append(achan, Input(Head(stdin))) /\ areader' = areader
               ELSE achan' = achan /\ areader' = "failed"
       ELSE /\ areader' = "ended"
            /\ UNCHANGED <<stdin, achan>>
    /\ UNCHANGED <<d, counter, pc, proc, typed, eof, kchan,
                   kreader, ticker, sent, drawn, hist>>

\* all_events(): loop { tx.send(Tick); sleep(100ms) }
all_events_tick_thread ==
    /\ proc = "up"
    /\ ticker = "alive"
    /\ IF AllRxAlive
       THEN /\ Len(achan) < MaxPending
            /\ sent < MaxTicks
            /\ achan' = Append(achan, Tick)
            /\ sent' = sent + 1
            /\ ticker' = ticker
       ELSE /\ ticker' = "failed"
            /\ UNCHANGED <<achan, sent>>
    /\ UNCHANGED <<d, counter, pc, proc, stdin, typed, eof, kchan,
                   kreader, areader, drawn, hist>>

\* ----------------------------------------------------------- main thread
\* key_events_loop: terminal.draw(..)
key_events_draw ==
    /\ proc = "up"
    /\ pc = "k_draw"
    /\ drawn' = counter
    /\ pc' = "k_recv"
    /\ UNCHANGED <<d, counter, proc, stdin, typed, eof, kchan, achan,
                   kreader, areader, ticker, sent, hist>>

\* variant: the catch-all arm of key_events_loop counts down
key_events_recv_counting ==
    /\ proc = "up"
    /\ pc = "k_recv"
    /\ kchan # <<>> \/ kreader # "alive"
    /\ IF kchan # <<>>
       THEN LET ev == Head(kchan)
                arm == key_events_match(ev)
                to == CASE arm = "all_events_loop" -> "a_draw"
                        [] arm = "return" -> "done"
                        [] OTHER -> "k_draw"
                c == IF arm = "continue" /\ ~load_is_zero(counter)
                     THEN fetch_sub(counter) ELSE counter
            IN /\ kchan' = Tail(kchan)
               /\ pc' = to
               /\ counter' = c
               /\ areader' = IF arm = "all_events_loop" THEN "alive" ELSE areader
               /\ ticker' = IF arm = "all_events_loop" THEN "alive" ELSE ticker
               /\ hist' = Append(hist, Entry(ev, "Idle", counter, c, c # counter,
                                             ControlStateOf(to), FALSE, FALSE))
       ELSE /\ pc' = recv_error
            /\ UNCHANGED <<counter, kchan, areader, ticker, hist>>
    /\ UNCHANGED <<d, proc, stdin, typed, eof, achan,
                   kreader, sent, drawn>>

\* key_events_loop: events.recv()? and the match on the event
key_events_recv ==
    /\ proc = "up"
    /\ pc = "k_recv"
    /\ kchan # <<>> \/ kreader # "alive"
    /\ IF kchan # <<>>
       THEN LET ev == Head(kchan)
                arm == key_events_match(ev)
                to == CASE arm = "all_events_loop" -> "a_draw"
                        [] arm = "return" -> "done"
                        [] OTHER -> "k_draw"
            IN /\ kchan' = Tail(kchan)
               /\ pc' = to
               /\ areader' = IF arm = "all_events_loop" THEN "alive" ELSE areader
               /\ ticker' = IF arm = "all_events_loop" THEN "alive" ELSE ticker
               /\ hist' = Append(hist, Entry(ev, "Idle", counter, counter, FALSE,
                                             ControlStateOf(to), FALSE, FALSE))
       ELSE /\ pc' = recv_error
            /\ UNCHANGED <<kchan, areader, ticker, hist>>
    /\ UNCHANGED <<d, counter, proc, stdin, typed, eof, achan,
                   kreader, sent, drawn>>

\* variant: all_events_loop goes to its recv without drawing
all_events_draw_skipped ==
    /\ proc = "up"
    /\ pc = "a_draw"
    /\ pc' = "a_recv"
    /\ UNCHANGED <<d, counter, proc, stdin, typed, eof, kchan, achan,
                   kreader, areader, ticker, sent, drawn, hist>>

\* all_events_loop: terminal.draw(..)
all_events_draw ==
    /\ proc = "up"
    /\ pc = "a_draw"
    /\ drawn' = counter
    /\ pc' = "a_recv"
    /\ UNCHANGED <<d, counter, proc, stdin, typed, eof, kchan, achan,
                   kreader, areader, ticker, sent, hist>>

\* all_events_loop: events.recv()? and the match on the event, up to and
\* including the zero check of the Tick arm
all_events_recv ==
    /\ proc = "up"
    /\ pc = "a_recv"
    /\ achan # <<>> \/ (areader # "alive" /\ ticker # "alive")
    /\ IF achan # <<>>
       THEN LET ev == Head(achan)
                arm == all_events_match(ev, counter)
                to == CASE arm = "fetch_sub" -> "a_sub"
                        [] arm = "continue" -> "a_draw"
                        [] OTHER -> after_all_events_loop
            IN /\ achan' = Tail(achan)
               /\ pc' = to
               /\ hist' = IF arm = "fetch_sub"
                          THEN hist
                          ELSE Append(hist, Entry(ev, "Running", counter, counter, FALSE,
                                                  ControlStateOf(to), FALSE,
                                                  \/ (ev = Tick /\ NextQueued(Tail(achan), Input("Esc")))
                                                  \/ (ev = Input("Esc") /\ NextQueued(Tail(achan), Tick))))
       ELSE /\ pc' = recv_error
            /\ UNCHANGED <<achan, hist>>
    /\ UNCHANGED <<d, counter, proc, stdin, typed, eof, kchan,
                   kreader, areader, ticker, sent, drawn>>

\* all_events_loop: the fetch_sub of the Tick arm
all_events_fetch_sub ==
    /\ proc = "up"
    /\ pc = "a_sub"
    /\ counter' = fetch_sub(counter)
    /\ pc' = "a_draw"
    /\ hist' = Append(hist, Entry(Tick, "Running", counter, fetch_sub(counter), TRUE,
                                  "Running", counter = 1 /\ TicksIn(achan) > 0,
                                  NextQueued(achan, Input("Esc"))))
    /\ UNCHANGED <<d, proc, stdin, typed, eof, kchan, achan,
                   kreader, areader, ticker, sent, drawn>>

\* main returns Ok(()) or its unwrap panics: the process ends and takes the
\* remaining threads with it
process_exit ==
    /\ proc = "up"
    /\ pc \in {"done", "panicked"}
    /\ proc' = "exited"
    /\ UNCHANGED <<d, counter, pc, stdin, typed, eof, kchan, achan,
                   kreader, areader, ticker, sent, drawn, hist>>

Next ==
    \/ \E k \in Keys : Type(k)
    \/ Eof
    \/ key_events_thread
    \/ all_events_key_thread
    \/ all_events_tick_thread
    \/ key_events_draw
    \/ key_events_recv
    \/ all_events_draw
    \/ all_events_recv
    \/ all_events_fetch_sub
    \/ process_exit

Spec == Init /\ [][Next]_vars

\* Every thread of the process is an OS thread and keeps being scheduled: a
\* step of the main thread or of a producer thread that stays possible is
\* eventually taken, and a main that has returned or panicked ends the
\* process.  Nothing is assumed of the user (Type, Eof).
FairSpec ==
    /\ Spec
    /\ WF_vars(key_events_thread)
    /\ WF_vars(all_events_key_thread)
    /\ WF_vars(all_events_tick_thread)
    /\ WF_vars(key_events_draw)
    /\ WF_vars(key_events_recv)
    /\ WF_vars(all_events_draw)
    /\ WF_vars(all_events_recv)
    /\ WF_vars(all_events_fetch_sub)
    /\ WF_vars(process_exit)

TypeOK ==
    /\ d \in 0..MaxDuration
    /\ counter \in 0..(2 ^ WordBits - 1)
    /\ pc \in {"k_draw", "k_recv", "a_draw", "a_recv", "a_sub", "done", "panicked"}
    /\ proc \in {"up", "exited"}
    /\ typed \in 0..MaxKeys
    /\ kreader \in {"alive", "ended", "failed"}
    /\ areader \in {"none", "alive", "ended", "failed"}
    /\ ticker \in {"none", "alive", "failed"}

\* ------------------------------------------------------ history notions
\* A Tick is entered in hist when its arm has run to its end (the break, or
\* the fetch_sub); a key press when its arm has run.
RunEntries == SelectSeq(hist, LAMBDA e : e.st = "Running")

OnlyTicks(s) == \A i \in DOMAIN s : s[i].ev = Tick

EventsOf(h) == [i \in DOMAIN h |-> h[i].ev]

CounterTrace(h) == [i \in DOMAIN h |-> h[i].after]

Decrements == Cardinality({i \in DOMAIN hist : hist[i].dec})

TicksConsumed == Cardinality({i \in DOMAIN hist : hist[i].ev = Tick})

EnteredRunning == \E i \in DOMAIN hist : hist[i].to = "Running"

LeftRunning == EnteredRunning /\ ControlState # "Running"

Min(a, b) == IF a <= b THEN a ELSE b

\* The main thread takes event ev off the all_events channel in this step.
RunningConsumes(ev) ==
    /\ pc = "a_recv"
    /\ pc' # pc
    /\ achan # <<>>
    /\ Head(achan) = ev

\* ---------------------------------------------------------------- claims

\* C1: in every reachable state the counter lies in [0, d]; it never
\* underflows below 0 (which for a usize would show as a wrapped value).
C1_CounterInRange == counter \in 0..d

C1_Witness ==
    /\ d > 0
    /\ counter = 0
    /\ \E i \in DOMAIN hist : hist[i].ev = Tick /\ hist[i].before = 0

\* C2: after Enter, if only Ticks are consumed until the control loop has
\* left Running, the counter was decremented exactly d times and ends at 0.
C2_RunToCompletion ==
    (LeftRunning /\ OnlyTicks(RunEntries)) => (counter = 0 /\ Decrements = d)

C2_Witness ==
    /\ LeftRunning
    /\ OnlyTicks(RunEntries)
    /\ d = MaxDuration
    /\ Decrements = d

\* C3 (shape): with only Ticks consumed after Enter, Tick k <= d takes the
\* counter from d-k+1 to d-k and leaves the loop Running; Tick d+1 finds 0,
\* decrements nothing and moves the loop to `final`.
C3_Shape(final) ==
    OnlyTicks(RunEntries) =>
        \A k \in DOMAIN RunEntries :
            LET e == RunEntries[k]
            IN IF k <= d
               THEN e.before = d - k + 1 /\ e.after = d - k /\ e.to = "Running"
               ELSE k = d + 1 /\ e.before = 0 /\ e.after = 0 /\ ~e.dec /\ e.to = final

\* C3 (scenario): d = 3 and events [Enter, Tick, Tick, Tick, Tick] give the
\* counter trace [3, 2, 1, 0, 0] with the loop in `final` after the 4th Tick
\* and in Running before it.
C3_Scenario(final) ==
    (d = 3 /\ EventsOf(hist) = <<Input("Enter"), Tick, Tick, Tick, Tick>>) =>
        /\ CounterTrace(hist) = <<3, 2, 1, 0, 0>>
        /\ \A i \in 1..4 : hist[i].to = "Running"
        /\ hist[5].to = final

C4_Shape(final) ==
    \A i \in DOMAIN hist :
        (hist[i].st = "Running" /\ hist[i].ev = Input("Esc") /\ hist[i].before > 0) =>
            /\ hist[i].to = final
            /\ hist[i].after = hist[i].before
            /\ (i = Len(hist) => counter = hist[i].before)

C5_Shape(ks) ==
    \A i \in DOMAIN hist :
        (hist[i].st = "Idle" /\ hist[i].ev \in {Input(k) : k \in ks}) =>
            /\ hist[i].to = "Terminated"
            /\ ~EnteredRunning
            /\ ticker = "none"
            /\ counter = d

C7_TickRace ==
    /\ counter \in 0..d
    /\ (pc = "a_sub" => counter > 0)
    /\ \A i \in DOMAIN hist :
           (hist[i].ev = Tick /\ hist[i].before = 1) =>
               /\ hist[i].dec
               /\ hist[i].after = 0
               /\ \A j \in DOMAIN hist :
                      (j > i /\ hist[j].ev = Tick) =>
                          ~hist[j].dec /\ hist[j].before = 0 /\ hist[j].after = 0

C7_Witness ==
    \E i \in DOMAIN hist :
        /\ hist[i].ev = Tick
        /\ hist[i].before = 1
        /\ hist[i].more
        /\ i + 1 \in DOMAIN hist
        /\ hist[i + 1].ev = Tick
        /\ hist[i + 1].after = 0
        /\ counter = 0

\* C8: a Tick consumed while the counter is 0 leaves it at 0 and performs no
\* decrement.
C8_ZeroTick ==
    \A i \in DOMAIN hist :
        (hist[i].ev = Tick /\ hist[i].before = 0) =>
            (hist[i].after = 0 /\ ~hist[i].dec /\ counter = 0)

C8_Witness ==
    /\ d = 0
    /\ \E i \in DOMAIN hist : hist[i].ev = Tick /\ hist[i].before = 0

\* C9: no step taken while the control loop is in Idle changes the counter,
\* which in Idle equals the value it had on entering Idle (the duration).
C9_IdleFrame ==
    [][ControlState = "Idle" => (counter = d /\ counter' = counter)]_vars

C9_Witness ==
    /\ ControlState = "Idle"
    /\ pc = "k_recv"
    /\ d > 0
    /\ Len(hist) = 2
    /\ drawn = counter

\* C10: each Tick consumed in Running with the counter positive lowers it by
\* exactly one, no other event and nothing between two events changes it,
\* and in every reachable state the counter is d - min(d, Ticks consumed).
C10_CountsTicks ==
    /\ counter = d - Min(d, TicksConsumed)
    /\ \A i \in DOMAIN hist :
           /\ (hist[i].ev = Tick /\ hist[i].before > 0) =>
                  (hist[i].st = "Running" /\ hist[i].after = hist[i].before - 1)
           /\ (hist[i].ev # Tick) => hist[i].after = hist[i].before
           /\ hist[i].after <= hist[i].before
           /\ (i > 1) => hist[i].before = hist[i - 1].after

C10_Witness ==
    /\ d = MaxDuration
    /\ TicksConsumed = d + 1
    /\ \E i \in DOMAIN hist : hist[i].st = "Running" /\ hist[i].ev # Tick

\* The main thread takes event ev off the key_events channel in this step.
IdleConsumes(ev) ==
    /\ pc = "k_recv"
    /\ pc' # pc
    /\ kchan # <<>>
    /\ Head(kchan) = ev

\* C11: a key other than Enter, Escape and Quit consumed in Idle leaves the
\* loop in Idle, a key other than Escape and Quit (Enter included) consumed
\* in Running leaves it in Running; in both cases the counter and the
\* threads are unchanged and the loop's next step is its redraw.
C11_OtherKeysIgnored ==
    [][\A k \in Keys :
          /\ (k \notin {"Enter", "Esc", "Quit"} /\ IdleConsumes(Input(k))) =>
                 /\ pc' = "k_draw"
                 /\ ControlState' = "Idle"
                 /\ UNCHANGED <<counter, areader, ticker, kreader, proc>>
          /\ (k \notin {"Esc", "Quit"} /\ RunningConsumes(Input(k))) =>
                 /\ pc' = "a_draw"
                 /\ ControlState' = "Running"
                 /\ UNCHANGED <<counter, areader, ticker, kreader, proc>>]_vars

C11_Witness ==
    /\ pc = "a_recv"
    /\ drawn = counter
    /\ hist # <<>>
    /\ hist[Len(hist)].st = "Running"
    /\ hist[Len(hist)].ev = Input("Enter")
    /\ hist[Len(hist)].to = "Running"
    /\ hist[Len(hist)].before > 0

\* C12: every key press read from the terminal while the control loop is in
\* Running is published on the all_events channel, the one the loop is
\* receiving from; none goes to a producer whose channel is no longer read.
C12_KeysReachRunningLoop ==
    [][(ControlState = "Running" /\ stdin # <<>> /\ stdin' = Tail(stdin)) =>
           achan' = Append(achan, Input(Head(stdin)))]_vars

\* C13: whenever the control loop is blocked in recv the value last drawn is
\* the current counter, and once something has been drawn the displayed
\* value is the counter or the counter before its latest decrement.
C13_DisplayLag ==
    /\ (pc \in {"k_recv", "a_recv"} => drawn = counter)
    /\ (drawn # -1 => drawn - counter \in {0, 1})

C13_Witness ==
    /\ pc = "a_recv"
    /\ achan = <<>>
    /\ drawn = counter
    /\ counter > 0
    /\ counter < d

\* C14: in Idle there is no tick thread, no Tick has been sent and none is
\* queued; no Tick is ever on the key_events channel or consumed in Idle; a
\* tick thread is started only by the step that consumes Enter in Idle and
\* enters Running; a Tick is sent only while the loop is in Running.
C14_TickSourceOnlyRunning ==
    /\ [](/\ (ControlState = "Idle" => (ticker = "none" /\ sent = 0 /\ achan = <<>>))
          /\ TicksIn(kchan) = 0
          /\ \A i \in DOMAIN hist : hist[i].st = "Idle" => hist[i].ev # Tick)
    /\ [][/\ (ticker' # ticker /\ ticker' = "alive") =>
                 (IdleConsumes(Input("Enter")) /\ ControlState' = "Running")
          /\ (sent' # sent) =>
                 (ControlState = "Running" /\ achan' = Append(achan, Tick))]_vars

C14_Witness ==
    /\ ControlState = "Running"
    /\ ticker = "alive"
    /\ sent > 0
    /\ TicksConsumed > 0
    /\ hist[1].st = "Idle"
    /\ hist[1].ev = Input("Other")

\* The control loop has returned (or unwound) and both receivers are dropped.
ReceiversDropped == pc \in {"done", "panicked"}

\* C15: once the control loop has returned and its receivers are dropped, no
\* send succeeds (both queues and the count of Ticks sent stay as they are);
\* a send attempted by the tick thread fails and ends that thread; a key
\* thread that reads a key ends on that first send; and a tick thread still
\* alive at the drop eventually is not (its send has failed, or the process
\* has ended and taken it along).
C15_SendsFailAfterDrop ==
    /\ [][ReceiversDropped =>
             /\ UNCHANGED <<kchan, achan, sent>>
             /\ (ticker' # ticker) => (ticker = "alive" /\ ticker' = "failed")
             /\ (stdin # <<>> /\ stdin' = Tail(stdin)) =>
                    \/ (kreader = "alive" /\ kreader' = "failed" /\ areader' = areader)
                    \/ (areader = "alive" /\ areader' = "failed" /\ kreader' = kreader)]_vars
    /\ ((ReceiversDropped /\ ticker = "alive") ~> (ticker = "failed" \/ proc = "exited"))

C15_Witness ==
    /\ pc = "done"
    /\ proc = "up"
    /\ ticker = "failed"
    /\ areader = "failed"
    /\ TicksIn(achan) > 0

\* The recv the main thread is blocked in can only fail: its queue is empty
\* and every producer of its channel has ended.
RecvFails ==
    \/ (pc = "k_recv" /\ kchan = <<>> /\ kreader # "alive")
    \/ (pc = "a_recv" /\ achan = <<>> /\ areader # "alive" /\ ticker # "alive")

\* C16: when the recv fails because every producer of the channel has ended,
\* the main thread's step consumes no event, leaves the counter unchanged and
\* ends in the error outcome; from then on no event is consumed, the counter
\* stays and the outcome stays the error, never success.
C16_RecvFailureIsFatal ==
    [][/\ (RecvFails /\ pc' # pc) =>
              /\ Outcome' = "error"
              /\ UNCHANGED <<counter, hist, kchan, achan>>
       /\ (Outcome = "error") =>
              /\ Outcome' = "error"
              /\ UNCHANGED <<counter, hist>>]_vars

C16_Witness ==
    /\ Outcome = "error"
    /\ proc = "exited"
    /\ eof
    /\ kreader = "ended"
    /\ d > 0
    /\ counter = d
    /\ hist # <<>>

\* C17: when a Tick and an Escape are pending together in Running with the
\* counter at c, either order is safe.  Escape first: the loop is Terminated
\* on that step and the counter stays c.  Tick first: with c = 0 the Tick
\* ends the loop and the counter stays 0; with c > 0 the Tick takes it to
\* c - 1, the Escape is the next event consumed and ends the loop there.  So
\* the counter stays in [0, d] and the two final values are c and c - 1 (or
\* both 0): they differ by at most one.
C17_TickEscapeOrders ==
    /\ counter \in 0..d
    /\ \A i \in DOMAIN hist :
           hist[i].race =>
               LET c == hist[i].before
               IN /\ hist[i].st = "Running"
                  /\ c - counter \in {0, 1}
                  /\ IF hist[i].ev = Input("Esc") \/ c = 0
                     THEN /\ hist[i].to = "Terminated"
                          /\ i = Len(hist)
                          /\ counter = c
                     ELSE /\ hist[i].ev = Tick
                          /\ hist[i].after = c - 1
                          /\ counter = c - 1
                          /\ IF i = Len(hist)
                             THEN ControlState = "Running" /\ NextQueued(achan, Input("Esc"))
                             ELSE /\ i + 1 = Len(hist)
                                  /\ hist[i + 1].ev = Input("Esc")
                                  /\ hist[i + 1].to = "Terminated"

C17_Witness ==
    /\ ControlState = "Terminated"
    /\ Len(hist) >= 2
    /\ hist[Len(hist) - 1].ev = Tick
    /\ hist[Len(hist) - 1].race
    /\ hist[Len(hist) - 1].before = d
    /\ hist[Len(hist)].ev = Input("Esc")
    /\ counter = d - 1

\* Number of times the loop has gone from Idle to Running; all_events() is
\* called, and a tick thread spawned, once on each.
RunningEntries ==
    Cardinality({i \in DOMAIN hist : hist[i].st = "Idle" /\ hist[i].to = "Running"})

\* C18: Running is entered at most once, and only from Idle with no tick
\* thread started yet and no Tick sent; Running is left only for the end of
\* the run; no Idle phase follows a Running one; and every Tick sent was
\* sent by that one tick thread and is consumed by that one countdown, in
\* hand or still queued.
C18_SingleCountdown ==
    /\ [](/\ RunningEntries <= 1
          /\ \A i, j \in DOMAIN hist :
                 (i < j /\ hist[i].st = "Running") => hist[j].st = "Running"
          /\ sent = TicksConsumed + TicksIn(achan) + (IF pc = "a_sub" THEN 1 ELSE 0))
    /\ [][/\ (ControlState # "Running" /\ ControlState' = "Running") =>
                 /\ ControlState = "Idle"
                 /\ RunningEntries = 0
                 /\ ticker = "none"
                 /\ ticker' = "alive"
                 /\ sent = 0
                 /\ achan = <<>>
          /\ (ControlState = "Running" /\ ControlState' # "Running") =>
                 ControlState' \in {"Terminated", "Failed"}
          /\ (ticker # "none") => (ticker' # "none" /\ (ticker # "alive" => ticker' # "alive"))]_vars

C18_Witness ==
    /\ ControlState = "Terminated"
    /\ RunningEntries = 1
    /\ TicksIn(achan) > 0
    /\ \E i \in DOMAIN hist :
           hist[i].st = "Running" /\ hist[i].ev = Input("Enter") /\ hist[i].to = "Running"

\* C19: the loop never consumes more than d + 1 Ticks, and under weak
\* fairness of the tick thread and of the main thread a loop that is in
\* Running eventually is not, whatever the duration and the keys pressed.
C19_RunningEnds ==
    /\ [](TicksConsumed <= d + 1)
    /\ ((ControlState = "Running") ~> (ControlState # "Running"))

C19_Witness ==
    /\ ControlState = "Terminated"
    /\ proc = "exited"
    /\ d > 0
    /\ TicksConsumed = d + 1
    /\ \E i \in DOMAIN hist : hist[i].st = "Running" /\ hist[i].ev = Input("Quit")
====
